---- MODULE Spec2Model ----
(***************************************************************************)
(* codersquare: the Post and Like handlers behind the route table of       *)
(* createServer, each request a task that suspends only at an awaited      *)
(* datastore call.  A datastore call the handler does not await stays in   *)
(* flight after the response has been sent.                                *)
(***************************************************************************)
EXTENDS Integers, Sequences, FiniteSets, TLC

\* ------------------------------------------------------------------ bounds
MaxReqs == 2
MaxIds == 2
MaxFaults == 1
\* how many failed attempts of a query may fail without a numeric status
MaxFailures == 3

\* ------------------------------------------------------------------ values
Reqs == 1..MaxReqs
\* post ids (UUID strings in the code) are opaque: 1..MaxIds; NoId is a
\* missing req.params.postId / req.params.id / req.body.postId
PostIds == 1..MaxIds
NoId == 0
Users == {"U1", "U2"}
\* res.locals.userId when the parse stage resolved no identity
NoUser == "none"
\* the Authorization header: none, the "Bearer null" callEndpoint sends when
\* localStorage holds no token, or "Bearer <token>" with the token of a user
NoCred == "absent"
BearerNull == "Bearer null"
Creds == {NoCred, BearerNull} \cup Users
\* a missing body field, the empty string, a non-empty string
Undefined == "undefined"
Titles == {Undefined, "", "Hi"}
Urls == {Undefined, "", "http://x"}

OK == 200
BadRequest == 400
Unauthorized == 401
NotFound == 404
InternalError == 500
\* no response sent yet
NoStatus == 0

\* JavaScript's !v for a body field
Falsy(v) == v \in {Undefined, ""}

\* Post, without postedAt (no claim reads it)
Post(id, title, url, userId) == [id |-> id, title |-> title, url |-> url, userId |-> userId]
\* a Like built without the caller's identity
LikeNoUser(postId, userId) == [postId |-> postId, userId |-> NoUser]

\* Like: the composite key {postId, userId}
Like(postId, userId) == [postId |-> postId, userId |-> userId]
LikeKeys == [postId : PostIds, userId : Users \cup {NoUser}]

\* a post the datastore file may already hold when the server starts
SeedPost == Post(1, "Seed", "http://seed", "U1")

\* ------------------------------------------------------------------ route table
\* ENDPOINT_CONFIGS of @codersquare/shared, by the table of the HTTP surface
ENDPOINT_CONFIGS ==
  [healthz |-> [method |-> "get", auth |-> FALSE],
   listPosts |-> [method |-> "get", auth |-> TRUE],
   getPost |-> [method |-> "get", auth |-> FALSE],
   createPost |-> [method |-> "post", auth |-> TRUE],
   deletePost |-> [method |-> "delete", auth |-> TRUE],
   listLikes |-> [method |-> "get", auth |-> FALSE],
   createLike |-> [method |-> "post", auth |-> TRUE],
   deleteLike |-> [method |-> "delete", auth |-> TRUE]]

Endpoints == DOMAIN ENDPOINT_CONFIGS

HANDLERS ==
  [healthz |-> "healthz",
   listPosts |-> "postHandler.list",
   getPost |-> "postHandler.get",
   createPost |-> "postHandler.create",
   deletePost |-> "postHandler.delete",
   listLikes |-> "likeHandler.list",
   createLike |-> "likeHandler.create",
   deleteLike |-> "likeHandler.delete"]

\* a registration that leaves the enforce stage out
ChainNoEnforce(config) == <<"jwtParse", "handler">>

\* a registration that enforces on every route
ChainEnforceAlways(config) == <<"jwtParse", "enforceJwt", "handler">>

\* a registration that puts the handler first on a route without auth
ChainHandlerFirst(config) ==
  IF config.auth THEN <<"jwtParse", "enforceJwt", "handler">>
  ELSE <<"handler", "jwtParse">>

\* the middleware chain app[config.method](config.url, ...) binds
Chain(config) ==
  IF config.auth THEN <<"jwtParse", "enforceJwt", "handler">>
  ELSE <<"jwtParse", "handler">>

\* Object.keys(Endpoints).forEach: the routes bound in the express app
Routes ==
  {[name |-> entry, method |-> ENDPOINT_CONFIGS[entry].method,
    handler |-> HANDLERS[entry], chain |-> Chain(ENDPOINT_CONFIGS[entry])] :
     entry \in Endpoints}

\* the route a request for endpoint ep matches
RouteOf(ep) == CHOOSE route \in Routes : route.name = ep

\* next(): the stage of the chain after the n stages that have run
NextStage(ep, n) == RouteOf(ep).chain[n + 1]

\* ------------------------------------------------------------------ state
VARIABLES
  posts,    \* datastore: the stored Post rows
  likes,    \* datastore: the stored Like rows, LikeKey -> number of rows
  pending,  \* datastore calls issued without await, still in flight
  uuids,    \* every id crypto.randomUUID() has returned so far
  req,      \* the requests: input, position in the chain, response
  dbFaults, \* how many more datastore calls may fail
  query     \* web client: one query of queryClient, its attempts and retries

vars == <<posts, likes, pending, uuids, req, dbFaults, query>>

IdleReq ==
  [ep |-> "listPosts", cred |-> NoCred, postId |-> NoId, title |-> Undefined,
   url |-> Undefined, pc |-> "idle", userId |-> NoUser, status |-> NoStatus,
   likes |-> 0, posts |-> {}, newId |-> NoId, before |-> {}, stages |-> <<>>,
   calls |-> <<>>, failed |-> FALSE, sent |-> 0]

InitStore ==
  /\ posts \in {{}, {SeedPost}}
  /\ likes = [k \in LikeKeys |-> 0]
  /\ pending = {}
  /\ uuids = {p.id : p \in posts}
  /\ req = [r \in Reqs |-> IdleReq]

\* localStorage.getItem(LOCAL_STORAGE_JWT) with nothing stored
NoToken == "null"

\* a query that has not been run, with the stored token
IdleQuery(token) ==
  [token |-> token, header |-> NoCred, pc |-> "idle", failureCount |-> 0,
   error |-> NoStatus, log |-> <<>>]

Init == InitStore /\ dbFaults = 0 /\ query = IdleQuery(NoToken)

InitFault == InitStore /\ dbFaults = MaxFaults /\ query = IdleQuery(NoToken)

\* ------------------------------------------------------------------ datastore
\* the Datastore contract: getPost is the stored post with that id, if any
DbGetPost(id) == {p \in posts : p.id = id}
DbListPosts(userId) == posts
DbCreatePost(post) == posts \cup {post}
DbDeletePost(id) == {p \in posts : p.id # id}
DbExists(like) == likes[like] > 0
DbCreateLike(like) == [likes EXCEPT ![like] = @ + 1]
DbDeleteLike(like) == [likes EXCEPT ![like] = 0]

RECURSIVE SumRows(_)
SumRows(keys) ==
  IF keys = {} THEN 0
  ELSE LET k == CHOOSE x \in keys : TRUE IN likes[k] + SumRows(keys \ {k})
DbGetLikes(postId) == SumRows({k \in LikeKeys : k.postId = postId})

\* whether the datastore call about to run returns (TRUE) or throws (FALSE)
DbOutcomes == IF dbFaults > 0 THEN {TRUE, FALSE} ELSE {TRUE}
Fault(ok) == dbFaults' = IF ok THEN dbFaults ELSE dbFaults - 1

\* a datastore call made without await: in flight until DbSettle
Call(r, op, arg) == [req |-> r, op |-> op, arg |-> arg]

\* ------------------------------------------------------------------ requests
Answered(r) == req[r].pc = "done"
Done == {r \in Reqs : Answered(r)}

\* ids crypto.randomUUID() can return: one it has never returned
RandomUUID(used) == PostIds \ used

\* a request arrives and enters the first stage of its route's chain
Request(r, ep, cred, postId, title, url) ==
  /\ req[r].pc = "idle"
  /\ r > 1 => req[r - 1].pc # "idle"
  /\ ep = "createPost" =>
       Cardinality(uuids)
         + Cardinality({q \in Reqs : req[q].ep = "createPost"
                                      /\ req[q].pc \notin {"idle", "done"}}) < MaxIds
  /\ req' = [req EXCEPT ![r] =
       [IdleReq EXCEPT !.ep = ep, !.cred = cred, !.postId = postId,
                       !.title = title, !.url = url, !.before = Done,
                       !.pc = NextStage(ep, 0)]]
  /\ UNCHANGED <<posts, likes, pending, uuids, dbFaults, query>>

\* jwtParseMiddleware: the identity of a valid bearer token, else none
ResolveIdentity(cred) == IF cred \in Users THEN cred ELSE NoUser

JwtParse(r) ==
  /\ req[r].pc = "jwtParse"
  /\ req' = [req EXCEPT ![r] =
       [@ EXCEPT !.userId = ResolveIdentity(req[r].cred),
                 !.stages = Append(@, "jwtParse"),
                 !.pc = NextStage(req[r].ep, Len(req[r].stages) + 1)]]
  /\ UNCHANGED <<posts, likes, pending, uuids, dbFaults, query>>

\* enforceJwtMiddleware: 401 when the parse stage resolved no identity
EnforceJwt(r) ==
  /\ req[r].pc = "enforceJwt"
  /\ req' = [req EXCEPT ![r] =
       IF req[r].userId = NoUser
       THEN [@ EXCEPT !.stages = Append(@, "enforceJwt"),
                      !.status = Unauthorized, !.sent = @ + 1, !.pc = "done"]
       ELSE [@ EXCEPT !.stages = Append(@, "enforceJwt"),
                      !.pc = NextStage(req[r].ep, Len(req[r].stages) + 1)]]
  /\ UNCHANGED <<posts, likes, pending, uuids, dbFaults, query>>

\* the handler of r's route is entered
Enter(r, name) ==
  /\ req[r].pc = "handler"
  /\ RouteOf(req[r].ep).handler = name

\* asyncHandler passes a rejected await to errHandler: a generic 500
Throw(q, call) ==
  [q EXCEPT !.stages = IF q.pc = "handler" THEN Append(@, "handler") ELSE @,
            !.calls = Append(@, call), !.failed = TRUE,
            !.status = InternalError, !.sent = @ + 1, !.pc = "done"]

\* res.status(s).send(..) / res.sendStatus(s) after the datastore calls cs
Reply(q, s, cs) ==
  [q EXCEPT !.stages = IF q.pc = "handler" THEN Append(@, "handler") ELSE @,
            !.calls = @ \o cs, !.status = s, !.sent = @ + 1, !.pc = "done"]

\* ------------------------------------------------------------------ healthz
\* (_, res) => res.send({ status: 'ok!' })
Healthz(r) ==
  /\ Enter(r, "healthz")
  /\ req' = [req EXCEPT ![r] = Reply(@, OK, <<>>)]
  /\ UNCHANGED <<posts, likes, pending, uuids, dbFaults, query>>

\* ------------------------------------------------------------------ PostHandler
\* list: await db.listPosts(userId)
PostList(r) ==
  /\ Enter(r, "postHandler.list")
  /\ \E ok \in DbOutcomes :
       /\ Fault(ok)
       /\ req' = [req EXCEPT ![r] =
            IF ok
            THEN [Reply(@, OK, <<"listPosts">>) EXCEPT !.posts = DbListPosts(req[r].userId)]
            ELSE Throw(@, "listPosts")]
  /\ UNCHANGED <<posts, likes, pending, uuids, query>>

\* a check of the title alone
PostCreateInvalidTitleOnly(title, url) == Falsy(title)

\* !req.body.title || !req.body.url
PostCreateInvalid(title, url) == Falsy(title) \/ Falsy(url)

\* create that answers before db.createPost has taken effect
PostCreateNoAwait(r) ==
  /\ Enter(r, "postHandler.create")
  /\ IF PostCreateInvalid(req[r].title, req[r].url)
     THEN /\ req' = [req EXCEPT ![r] = Reply(@, BadRequest, <<>>)]
          /\ UNCHANGED uuids
     ELSE \E id \in RandomUUID(uuids) :
            /\ uuids' = uuids \cup {id}
            /\ req' = [req EXCEPT ![r] =
                 [Reply(@, OK, <<"createPost">>) EXCEPT !.newId = id]]
  /\ UNCHANGED <<posts, likes, pending, dbFaults, query>>

\* create: 400 on a missing field, else a fresh id and await db.createPost
PostCreate(r) ==
  /\ Enter(r, "postHandler.create")
  /\ IF PostCreateInvalid(req[r].title, req[r].url)
     THEN /\ req' = [req EXCEPT ![r] = Reply(@, BadRequest, <<>>)]
          /\ UNCHANGED <<posts, uuids, dbFaults>>
     ELSE \E id \in RandomUUID(uuids), ok \in DbOutcomes :
            LET post == Post(id, req[r].title, req[r].url, req[r].userId) IN
            /\ uuids' = uuids \cup {id}
            /\ Fault(ok)
            /\ posts' = IF ok THEN DbCreatePost(post) ELSE posts
            /\ req' = [req EXCEPT ![r] =
                 IF ok
                 THEN [Reply(@, OK, <<"createPost">>) EXCEPT !.newId = id]
                 ELSE [Throw(@, "createPost") EXCEPT !.newId = id]]
  /\ UNCHANGED <<likes, pending, query>>

\* delete that lets only the owner of the post delete it
PostDeleteOwnerOnly(r) ==
  /\ Enter(r, "postHandler.delete")
  /\ LET owned == \E p \in DbGetPost(req[r].postId) : p.userId = req[r].userId IN
     IF req[r].postId = NoId
     THEN /\ req' = [req EXCEPT ![r] = Reply(@, BadRequest, <<>>)]
          /\ UNCHANGED pending
     ELSE IF ~owned
     THEN /\ req' = [req EXCEPT ![r] = Reply(@, Unauthorized, <<"getPost">>)]
          /\ UNCHANGED pending
     ELSE /\ pending' = pending \cup {Call(r, "deletePost", req[r].postId)}
          /\ req' = [req EXCEPT ![r] = Reply(@, OK, <<"getPost", "deletePost">>)]
  /\ UNCHANGED <<posts, likes, uuids, dbFaults, query>>

\* delete: 400 on a missing postId, else db.deletePost without await and 200
PostDelete(r) ==
  /\ Enter(r, "postHandler.delete")
  /\ IF req[r].postId = NoId
     THEN /\ req' = [req EXCEPT ![r] = Reply(@, BadRequest, <<>>)]
          /\ UNCHANGED pending
     ELSE /\ pending' = pending \cup {Call(r, "deletePost", req[r].postId)}
          /\ req' = [req EXCEPT ![r] = Reply(@, OK, <<"deletePost">>)]
  /\ UNCHANGED <<posts, likes, uuids, dbFaults, query>>

\* get that returns a post to its owner alone
PostGetOwnOnly(r) ==
  /\ Enter(r, "postHandler.get")
  /\ LET postToReturn == {p \in DbGetPost(req[r].postId) : p.userId = req[r].userId} IN
     req' = [req EXCEPT ![r] =
       IF req[r].postId = NoId THEN Reply(@, BadRequest, <<>>)
       ELSE IF postToReturn = {} THEN Reply(@, NotFound, <<"getPost">>)
       ELSE [Reply(@, OK, <<"getPost">>) EXCEPT !.posts = postToReturn]]
  /\ UNCHANGED <<posts, likes, pending, uuids, dbFaults, query>>

\* get: 400 on a missing id, await db.getPost, 404 when there is none
PostGet(r) ==
  /\ Enter(r, "postHandler.get")
  /\ IF req[r].postId = NoId
     THEN /\ req' = [req EXCEPT ![r] = Reply(@, BadRequest, <<>>)]
          /\ UNCHANGED dbFaults
     ELSE \E ok \in DbOutcomes :
            LET postToReturn == DbGetPost(req[r].postId) IN
            /\ Fault(ok)
            /\ req' = [req EXCEPT ![r] =
                 IF ~ok THEN Throw(@, "getPost")
                 ELSE IF postToReturn = {} THEN Reply(@, NotFound, <<"getPost">>)
                 ELSE [Reply(@, OK, <<"getPost">>) EXCEPT !.posts = postToReturn]]
  /\ UNCHANGED <<posts, likes, pending, uuids, query>>

\* ------------------------------------------------------------------ LikeHandler
\* create that skips the check of the post
LikeCreateNoPostCheck(r) ==
  /\ Enter(r, "likeHandler.create")
  /\ req' = [req EXCEPT ![r] =
       IF req[r].postId = NoId THEN Reply(@, BadRequest, <<>>)
       ELSE [@ EXCEPT !.stages = Append(@, "handler"), !.pc = "exists"]]
  /\ UNCHANGED <<posts, likes, pending, uuids, dbFaults, query>>

\* create, to its second await: 400 on a missing postId, await db.getPost,
\* 404 when there is no such post
LikeCreate(r) ==
  /\ Enter(r, "likeHandler.create")
  /\ IF req[r].postId = NoId
     THEN /\ req' = [req EXCEPT ![r] = Reply(@, BadRequest, <<>>)]
          /\ UNCHANGED dbFaults
     ELSE \E ok \in DbOutcomes :
            /\ Fault(ok)
            /\ req' = [req EXCEPT ![r] =
                 IF ~ok THEN Throw(@, "getPost")
                 ELSE IF DbGetPost(req[r].postId) = {} THEN Reply(@, NotFound, <<"getPost">>)
                 ELSE [@ EXCEPT !.stages = Append(@, "handler"),
                                !.calls = Append(@, "getPost"), !.pc = "exists"]]
  /\ UNCHANGED <<posts, likes, pending, uuids, query>>

\* create that calls db.createLike before it looks at the duplicate
LikeCreateExistsInsertFirst(r) ==
  /\ req[r].pc = "exists"
  /\ LET likeForInsert == Like(req[r].postId, req[r].userId) IN
     /\ pending' = pending \cup {Call(r, "createLike", likeForInsert)}
     /\ req' = [req EXCEPT ![r] =
          IF DbExists(likeForInsert) THEN Reply(@, BadRequest, <<"createLike", "exists">>)
          ELSE Reply(@, OK, <<"createLike", "exists">>)]
  /\ UNCHANGED <<posts, likes, uuids, dbFaults, query>>

\* create, from await db.exists: 400 on a duplicate, else db.createLike
\* without await and 200
LikeCreateExists(r) ==
  /\ req[r].pc = "exists"
  /\ \E ok \in DbOutcomes :
       LET likeForInsert == Like(req[r].postId, req[r].userId)
           found == DbExists(likeForInsert)
       IN
       /\ Fault(ok)
       /\ req' = [req EXCEPT ![r] =
            IF ~ok THEN Throw(@, "exists")
            ELSE IF found THEN Reply(@, BadRequest, <<"exists">>)
            ELSE Reply(@, OK, <<"exists", "createLike">>)]
       /\ pending' = IF ok /\ ~found
                     THEN pending \cup {Call(r, "createLike", likeForInsert)}
                     ELSE pending
  /\ UNCHANGED <<posts, likes, uuids, query>>

\* delete that answers 404 when the pair has no Like
LikeDeleteIfPresent(r) ==
  /\ Enter(r, "likeHandler.delete")
  /\ LET likeForDelete == Like(req[r].postId, req[r].userId)
         found == /\ req[r].postId # NoId
                  /\ DbGetPost(req[r].postId) # {}
                  /\ DbExists(likeForDelete)
     IN
     /\ req' = [req EXCEPT ![r] =
          IF req[r].postId = NoId THEN Reply(@, BadRequest, <<>>)
          ELSE IF ~found THEN Reply(@, NotFound, <<"getPost">>)
          ELSE Reply(@, OK, <<"getPost", "deleteLike">>)]
     /\ pending' = IF found
                   THEN pending \cup {Call(r, "deleteLike", likeForDelete)}
                   ELSE pending
  /\ UNCHANGED <<posts, likes, uuids, dbFaults, query>>

\* delete: 400 on a missing postId, await db.getPost, 404 when there is no
\* such post, else db.deleteLike without await and 200
LikeDelete(r) ==
  /\ Enter(r, "likeHandler.delete")
  /\ IF req[r].postId = NoId
     THEN /\ req' = [req EXCEPT ![r] = Reply(@, BadRequest, <<>>)]
          /\ UNCHANGED <<pending, dbFaults>>
     ELSE \E ok \in DbOutcomes :
            LET likeForDelete == Like(req[r].postId, req[r].userId)
                found == DbGetPost(req[r].postId) # {}
            IN
            /\ Fault(ok)
            /\ req' = [req EXCEPT ![r] =
                 IF ~ok THEN Throw(@, "getPost")
                 ELSE IF ~found THEN Reply(@, NotFound, <<"getPost">>)
                 ELSE Reply(@, OK, <<"getPost", "deleteLike">>)]
            /\ pending' = IF ok /\ found
                          THEN pending \cup {Call(r, "deleteLike", likeForDelete)}
                          ELSE pending
  /\ UNCHANGED <<posts, likes, uuids, query>>

\* list that returns on a missing postId without sending a response
LikeListNoAnswer(r) ==
  /\ Enter(r, "likeHandler.list")
  /\ IF req[r].postId = NoId
     THEN /\ req' = [req EXCEPT ![r] =
               [@ EXCEPT !.stages = Append(@, "handler"), !.pc = "returned"]]
          /\ UNCHANGED dbFaults
     ELSE \E ok \in DbOutcomes :
            /\ Fault(ok)
            /\ req' = [req EXCEPT ![r] =
                 IF ok
                 THEN [Reply(@, OK, <<"getLikes">>) EXCEPT !.likes = DbGetLikes(req[r].postId)]
                 ELSE Throw(@, "getLikes")]
  /\ UNCHANGED <<posts, likes, pending, uuids, query>>

\* list: 400 on a missing postId, else await db.getLikes
LikeList(r) ==
  /\ Enter(r, "likeHandler.list")
  /\ IF req[r].postId = NoId
     THEN /\ req' = [req EXCEPT ![r] = Reply(@, BadRequest, <<>>)]
          /\ UNCHANGED dbFaults
     ELSE \E ok \in DbOutcomes :
            /\ Fault(ok)
            /\ req' = [req EXCEPT ![r] =
                 IF ok
                 THEN [Reply(@, OK, <<"getLikes">>) EXCEPT !.likes = DbGetLikes(req[r].postId)]
                 ELSE Throw(@, "getLikes")]
  /\ UNCHANGED <<posts, likes, pending, uuids, query>>

\* ------------------------------------------------------------------ datastore, in flight
\* a call made without await completes: its write takes effect, or it
\* rejects with nobody awaiting it and the write is lost
DbSettle(c) ==
  /\ c \in pending
  /\ pending' = pending \ {c}
  /\ \E ok \in DbOutcomes :
       /\ Fault(ok)
       /\ posts' = IF ok /\ c.op = "deletePost" THEN DbDeletePost(c.arg) ELSE posts
       /\ likes' = IF ok /\ c.op = "createLike" THEN DbCreateLike(c.arg)
                   ELSE IF ok /\ c.op = "deleteLike" THEN DbDeleteLike(c.arg)
                   ELSE likes
       /\ req' = IF ok THEN req ELSE [req EXCEPT ![c.req].failed = TRUE]
  /\ UNCHANGED <<uuids, query>>

\* ------------------------------------------------------------------ specification
Next ==
  \/ \E r \in Reqs, ep \in Endpoints, cred \in Creds :
       \/ /\ ep \in {"healthz", "listPosts"}
          /\ Request(r, ep, cred, NoId, Undefined, Undefined)
       \/ /\ ep = "createPost"
          /\ \E title \in Titles, url \in Urls : Request(r, ep, cred, NoId, title, url)
       \/ /\ ep \notin {"healthz", "listPosts", "createPost"}
          /\ \E postId \in PostIds \cup {NoId} :
               Request(r, ep, cred, postId, Undefined, Undefined)
  \/ \E r \in Reqs : JwtParse(r)
  \/ \E r \in Reqs : EnforceJwt(r)
  \/ \E r \in Reqs : Healthz(r)
  \/ \E r \in Reqs : PostList(r)
  \/ \E r \in Reqs : PostCreate(r)
  \/ \E r \in Reqs : PostDelete(r)
  \/ \E r \in Reqs : PostGet(r)
  \/ \E r \in Reqs : LikeCreate(r)
  \/ \E r \in Reqs : LikeCreateExists(r)
  \/ \E r \in Reqs : LikeDelete(r)
  \/ \E r \in Reqs : LikeList(r)
  \/ \E c \in pending : DbSettle(c)

\* the datastore never fails
Spec == Init /\ [][Next]_vars

\* up to MaxFaults datastore calls fail
SpecFault == InitFault /\ [][Next]_vars

\* a step of the Post or Like handler serving r: the handler runs to its
\* next await, and the datastore call it awaits returns or throws
HandlerStep(r) ==
  \/ PostList(r) \/ PostCreate(r) \/ PostDelete(r) \/ PostGet(r)
  \/ LikeCreate(r) \/ LikeCreateExists(r) \/ LikeDelete(r) \/ LikeList(r)

\* up to MaxFaults datastore calls fail, and every awaited datastore call
\* eventually returns or throws
SpecLive == SpecFault /\ \A r \in Reqs : WF_vars(HandlerStep(r))

\* ------------------------------------------------------------------ web client
\* a 5xx status other than 500
Unavailable == 503

\* what fetch can come back with: a response status, or a rejection that
\* carries no status (NoStatus)
FetchOutcomes == {OK, BadRequest, Unauthorized, NotFound, InternalError, Unavailable, NoStatus}

\* response.ok
ResponseOk(status) == status >= 200 /\ status <= 299

\* Authorization: `Bearer ${localStorage.getItem(LOCAL_STORAGE_JWT)}`
AuthorizationHeader(token) == IF token = NoToken THEN BearerNull ELSE token

\* a retry policy that grants a third retry
RetryThrice(failureCount, status) ==
  IF status = NoStatus THEN TRUE
  ELSE status >= 500 /\ failureCount <= 2

\* queries.retry(failureCount, error): true for an error without a numeric
\* status, else status >= 500 && failureCount < 2
Retry(failureCount, status) ==
  IF status = NoStatus THEN TRUE
  ELSE status >= 500 /\ failureCount < 2

ServerIdle == UNCHANGED <<posts, likes, pending, uuids, req, dbFaults>>

\* the query is run for the first time
UseQuery ==
  /\ query.pc = "idle"
  /\ query' = [query EXCEPT !.pc = "fetching"]
  /\ ServerIdle

\* callEndpoint: one fetch; a response that is not ok, or a rejected fetch,
\* is thrown to the query
CallEndpoint(outcome) ==
  /\ query.pc = "fetching"
  /\ outcome = NoStatus => query.failureCount < MaxFailures
  /\ query' = [query EXCEPT !.header = AuthorizationHeader(query.token),
                            !.error = IF ResponseOk(outcome) THEN NoStatus ELSE outcome,
                            !.pc = IF ResponseOk(outcome) THEN "success" ELSE "failed"]
  /\ ServerIdle

\* the queryClient asks retry with the number of failures so far, and
\* either counts the failure and fetches again or gives the query up
RetryStep ==
  /\ query.pc = "failed"
  /\ LET shouldRetry == Retry(query.failureCount, query.error) IN
     query' = [query EXCEPT
       !.log = Append(@, [status |-> query.error,
                          failureCount |-> query.failureCount,
                          retried |-> shouldRetry]),
       !.failureCount = IF shouldRetry THEN @ + 1 ELSE @,
       !.pc = IF shouldRetry THEN "fetching" ELSE "error"]
  /\ ServerIdle

InitClient ==
  /\ InitStore /\ posts = {} /\ dbFaults = 0
  /\ query \in {IdleQuery(token) : token \in {NoToken} \cup Users}

NextClient ==
  \/ UseQuery
  \/ \E outcome \in FetchOutcomes : CallEndpoint(outcome)
  \/ RetryStep

\* one query of the web client, the server left aside
SpecClient == InitClient /\ [][NextClient]_vars

\* ------------------------------------------------------------------ properties
Issued(r) == req[r].pc # "idle"
\* the request reached its handler
Handled(r) == \E i \in 1..Len(req[r].stages) : req[r].stages[i] = "handler"
Called(r, op) == \E i \in 1..Len(req[r].calls) : req[r].calls[i] = op
\* r may still change, or has changed, the likes of post p
LikeWriter(r, p) ==
  /\ Issued(r)
  /\ req[r].ep \in {"createLike", "deleteLike"}
  /\ req[r].postId = p
  /\ Answered(r) => req[r].status = OK
\* a delete-post request for post p has been issued
PostDeleter(r, p) == Issued(r) /\ req[r].ep = "deletePost" /\ req[r].postId = p

C2_CreateTwice ==
  [][/\ \A a, b \in Reqs :
          (/\ req'[a].ep = "createLike" /\ req'[b].ep = "createLike"
           /\ req'[a].pc = "done" /\ req'[b].pc = "done"
           /\ a \in req'[b].before
           /\ req'[a].postId = req'[b].postId
           /\ req'[a].userId = req'[b].userId
           /\ req'[a].status = OK
           /\ \A o \in Reqs \ {a, b} :
                ~(req'[o].pc # "idle" /\ req'[o].postId = req'[a].postId
                  /\ req'[o].ep \in {"deleteLike", "deletePost"}))
          => req'[b].status = BadRequest
     /\ \A r \in Reqs :
          (/\ req[r].pc = "exists" /\ req'[r].pc = "done"
           /\ likes[Like(req[r].postId, req[r].userId)] > 0)
          => req'[r].status = BadRequest]_vars

\* C3: a list-likes answered after a create-like (delete-like) of the post
\* was answered 200 counts that like (no longer counts it): 1 after the only
\* like of the post was created, 0 after it was deleted.
C3_CountReflects ==
  \A c, l \in Reqs :
    (/\ Answered(c) /\ req[c].status = OK /\ req[c].postId # NoId
     /\ Answered(l) /\ req[l].ep = "listLikes" /\ req[l].status = OK
     /\ req[l].postId = req[c].postId
     /\ c \in req[l].before
     /\ \A o \in Reqs : ~PostDeleter(o, req[c].postId))
    => /\ (/\ req[c].ep = "createLike"
           /\ \A o \in Reqs \ {c} : ~LikeWriter(o, req[c].postId))
          => req[l].likes = 1
       /\ (/\ req[c].ep = "deleteLike"
           /\ \A o \in Reqs \ {c} :
                LikeWriter(o, req[c].postId)
                  => /\ req[o].ep = "createLike"
                     /\ req[o].userId = req[c].userId
                     /\ o \in req[c].before)
          => req[l].likes = 0

\* C4: whenever a Like row is added to the datastore, the post it references
\* is stored at that moment.
C4_LikeReferencesPost ==
  [][\A k \in LikeKeys : likes'[k] > likes[k] => DbGetPost(k.postId) # {}]_vars

\* C5: on an endpoint whose config requires auth, a request for which the
\* parse stage resolved no identity never reaches the handler, makes no
\* datastore call, and is answered 401.
C5_EnforceGate ==
  \A r \in Reqs :
    (/\ Issued(r)
     /\ ENDPOINT_CONFIGS[req[r].ep].auth
     /\ req[r].stages # <<>>
     /\ req[r].userId = NoUser)
    => /\ ~Handled(r)
       /\ req[r].calls = <<>>
       /\ \A c \in pending : c.req # r
       /\ Answered(r) => req[r].status = Unauthorized

C5_Witness ==
  \E r \in Reqs :
    /\ Answered(r)
    /\ ENDPOINT_CONFIGS[req[r].ep].auth
    /\ req[r].cred = NoCred
    /\ req[r].stages = <<"jwtParse", "enforceJwt">>
    /\ req[r].status = Unauthorized

\* C6: a request one of whose datastore calls failed is answered 500, never
\* 200.
C6_FailureIs500 ==
  \A r \in Reqs : (Answered(r) /\ req[r].failed) => req[r].status = InternalError

\* C7: on an existing post delete-like is answered 200 whether or not the
\* pair has a Like, so a second delete after the first is answered 200 too,
\* and when the deletion takes effect the pair has no Like.
C7_DeleteIdempotent ==
  /\ [](\A a, b \in Reqs :
          (/\ req[a].ep = "deleteLike" /\ req[b].ep = "deleteLike"
           /\ Answered(a) /\ Answered(b) /\ a \in req[b].before
           /\ req[a].postId = req[b].postId /\ req[a].userId = req[b].userId
           /\ req[a].status = OK
           /\ \A o \in Reqs : ~PostDeleter(o, req[a].postId))
          => req[b].status = OK)
  /\ [][/\ \A r \in Reqs :
             (/\ Enter(r, "likeHandler.delete") /\ req'[r].pc = "done"
              /\ req[r].postId # NoId /\ DbGetPost(req[r].postId) # {})
             => req'[r].status = OK
        /\ \A c \in pending \ pending' :
             c.op = "deleteLike" => likes'[c.arg] = 0]_vars

C7_Witness ==
  \E a, b \in Reqs :
    /\ req[a].ep = "deleteLike" /\ req[b].ep = "deleteLike"
    /\ Answered(a) /\ Answered(b) /\ a \in req[b].before
    /\ req[a].postId = req[b].postId /\ req[a].userId = req[b].userId
    /\ req[a].status = OK /\ req[b].status = OK
    /\ pending = {}
    /\ likes[Like(req[a].postId, req[a].userId)] = 0

\* C8 as claimed: a create-like whose postId matches no post is answered
\* 404 whatever identity it carries, none included, and persists no Like.
C8_NotFoundAnyIdentity ==
  \A r \in Reqs :
    (/\ req[r].ep = "createLike" /\ Answered(r)
     /\ req[r].postId # NoId /\ req[r].postId \notin uuids)
    => /\ req[r].status = NotFound
       /\ ~Called(r, "createLike")

\* C8, amended: a create-like whose postId matches no post is answered 404
\* when it carries a resolved identity and 401 when it carries none; in both
\* cases it issues no createLike.
C8_NotFoundWhenIdentified ==
  /\ [](\A r \in Reqs :
          (/\ req[r].ep = "createLike" /\ Answered(r)
           /\ req[r].postId # NoId /\ req[r].postId \notin uuids)
          => /\ req[r].status = IF req[r].userId = NoUser THEN Unauthorized ELSE NotFound
             /\ ~Called(r, "createLike"))
  /\ [][\A r \in Reqs :
          (/\ Enter(r, "likeHandler.create") /\ req'[r] # req[r]
           /\ req[r].postId # NoId /\ DbGetPost(req[r].postId) = {})
          => /\ req'[r].pc = "done"
             /\ req'[r].status = NotFound
             /\ pending' = pending /\ likes' = likes]_vars

C8_Witness ==
  \E r \in Reqs :
    /\ req[r].ep = "createLike" /\ Answered(r)
    /\ req[r].postId # NoId /\ req[r].postId \notin uuids
    /\ req[r].userId \in Users
    /\ req[r].status = NotFound

C10_GetAfterCreate ==
  /\ \A c, g \in Reqs :
       (/\ req[c].ep = "createPost" /\ Answered(c) /\ req[c].status = OK
        /\ req[g].ep = "getPost" /\ Answered(g)
        /\ c \in req[g].before
        /\ req[g].postId = req[c].newId)
       => /\ req[g].status = OK
            => req[g].posts = {Post(req[c].newId, req[c].title, req[c].url, req[c].userId)}
          /\ (\A o \in Reqs : ~PostDeleter(o, req[c].newId)) => req[g].status = OK
  /\ \A c, d \in Reqs :
       (c # d /\ req[c].newId # NoId /\ req[d].newId # NoId) => req[c].newId # req[d].newId
  /\ \A c \in Reqs, p \in posts :
       (req[c].newId = p.id /\ req[c].status = OK)
       => p = Post(req[c].newId, req[c].title, req[c].url, req[c].userId)

C10_Witness ==
  \E c, g \in Reqs :
    /\ req[c].ep = "createPost" /\ Answered(c) /\ req[c].status = OK
    /\ req[g].ep = "getPost" /\ Answered(g)
    /\ c \in req[g].before
    /\ req[g].postId = req[c].newId
    /\ req[g].status = OK
    /\ req[g].posts = {Post(req[c].newId, "Hi", "http://x", req[c].userId)}

\* C11: a delete-post with a postId is answered 200 and issues the deletion
\* of that post whoever the caller is, the owner or not, and the post is
\* gone when the deletion takes effect; with no postId it is answered 400
\* and removes nothing.
C11_DeleteAnyOwner ==
  [][/\ \A r \in Reqs :
          (Enter(r, "postHandler.delete") /\ req'[r] # req[r])
          => IF req[r].postId # NoId
             THEN /\ req'[r].pc = "done" /\ req'[r].status = OK
                  /\ [req |-> r, op |-> "deletePost", arg |-> req[r].postId] \in pending'
             ELSE /\ req'[r].pc = "done" /\ req'[r].status = BadRequest
                  /\ req'[r].calls = <<>>
                  /\ pending' = pending /\ posts' = posts
     /\ \A c \in pending \ pending' :
          c.op = "deletePost" => \A p \in posts' : p.id # c.arg]_vars

C11_Witness ==
  \E r \in Reqs :
    /\ req[r].ep = "deletePost" /\ Answered(r) /\ req[r].status = OK
    /\ req[r].postId = SeedPost.id
    /\ req[r].userId \in Users \ {SeedPost.userId}
    /\ SeedPost.id \in uuids
    /\ \A q \in Reqs : req[q].newId # SeedPost.id
    /\ pending = {}
    /\ posts = {}

\* C13: a get-post with the id of no stored post is answered 404, and with
\* the id of a stored post 200 with exactly that post, in every state that
\* create-post and delete-post requests lead to.
C13_GetStoredPost ==
  [][\A r \in Reqs :
       (Enter(r, "postHandler.get") /\ req'[r] # req[r] /\ req[r].postId # NoId)
       => /\ req'[r].pc = "done"
          /\ IF \E p \in posts : p.id = req[r].postId
             THEN /\ req'[r].status = OK
                  /\ req'[r].posts = {p \in posts : p.id = req[r].postId}
                  /\ Cardinality(req'[r].posts) = 1
             ELSE /\ req'[r].status = NotFound
                  /\ req'[r].posts = {}]_vars

C13_Witness ==
  \E d, g \in Reqs :
    /\ req[d].ep = "deletePost" /\ Answered(d) /\ req[d].status = OK
    /\ req[g].ep = "getPost" /\ Answered(g)
    /\ req[g].postId = req[d].postId
    /\ req[g].postId \in uuids
    /\ d \in req[g].before
    /\ req[g].status = NotFound

\* C16: a create-like, delete-like or list-likes answered 400 or 404 has
\* called neither createLike nor deleteLike and leaves the stored Likes as
\* they were; the checks come in the order missing postId (400, before any
\* datastore call), post not found (404, after getPost alone), duplicate
\* like (400, after getPost and exists).
C16_RejectedLeavesLikes ==
  [][\A r \in Reqs :
       (/\ req[r].ep \in {"createLike", "deleteLike", "listLikes"}
        /\ req[r].pc \in {"handler", "exists"}
        /\ req'[r].pc = "done"
        /\ req'[r].status \in {BadRequest, NotFound})
       => /\ likes' = likes /\ pending' = pending
          /\ \A i \in 1..Len(req'[r].calls) :
               req'[r].calls[i] \notin {"createLike", "deleteLike"}
          /\ IF req[r].postId = NoId
             THEN req'[r].status = BadRequest /\ req'[r].calls = <<>>
             ELSE IF req[r].pc = "handler"
             THEN /\ req[r].ep # "listLikes"
                  /\ \A p \in posts : p.id # req[r].postId
                  /\ req'[r].status = NotFound /\ req'[r].calls = <<"getPost">>
             ELSE /\ req[r].ep = "createLike"
                  /\ likes[[postId |-> req[r].postId, userId |-> req[r].userId]] > 0
                  /\ req'[r].status = BadRequest
                  /\ req'[r].calls = <<"getPost", "exists">>]_vars

C16_Witness ==
  \E r \in Reqs :
    /\ req[r].ep = "createLike" /\ Answered(r)
    /\ req[r].status = BadRequest
    /\ req[r].calls = <<"getPost", "exists">>
    /\ \A c \in pending : c.req # r

\* C17: a create-like or delete-like by user U on post P writes the pair
\* (P, U) alone: the Likes of every other pair and the stored posts stay as
\* they are, at the handler's steps and when its datastore call completes.
C17_OnlyOwnPair ==
  [][/\ \A c \in pending \ pending' :
          c.op \in {"createLike", "deleteLike"}
          => /\ posts' = posts
             /\ \A k \in LikeKeys :
                  k # [postId |-> req[c.req].postId, userId |-> req[c.req].userId]
                  => likes'[k] = likes[k]
     /\ \A r \in Reqs :
          (/\ req[r].ep \in {"createLike", "deleteLike"}
           /\ req[r].pc \in {"handler", "exists"}
           /\ req'[r] # req[r])
          => /\ posts' = posts /\ likes' = likes
             /\ \A c \in pending' \ pending :
                  /\ c.req = r
                  /\ c.op = req[r].ep
                  /\ c.arg = [postId |-> req[r].postId, userId |-> req[r].userId]
                  /\ req[r].userId \in Users]_vars

C17_Witness ==
  \E r \in Reqs, k \in LikeKeys :
    /\ req[r].ep = "deleteLike" /\ Answered(r) /\ req[r].status = OK
    /\ k.postId = req[r].postId
    /\ k.userId \in Users \ {req[r].userId}
    /\ likes[k] = 1
    /\ pending = {}

\* C12: on an endpoint whose config does not require auth, a request with
\* no Authorization header or with an invalid one ("Bearer null" included)
\* is not failed by the parse stage: it goes on to the handler with no
\* identity attached and is never answered 401.
C12_ParseDoesNotFail ==
  \A r \in Reqs :
    (/\ Issued(r)
     /\ ~ENDPOINT_CONFIGS[req[r].ep].auth
     /\ req[r].cred \in {NoCred, BearerNull}
     /\ req[r].stages # <<>>)
    => /\ req[r].stages[1] = "jwtParse"
       /\ req[r].userId = NoUser
       /\ req[r].status # Unauthorized
       /\ req[r].pc = "handler" \/ Handled(r)

C12_Witness ==
  \E r \in Reqs :
    /\ req[r].ep = "getPost" /\ req[r].cred = BearerNull
    /\ Answered(r) /\ Handled(r)
    /\ req[r].userId = NoUser
    /\ req[r].status = OK

\* C14: every name of Endpoints has exactly one route, and a request's
\* stages run in the order parse, then enforce exactly when the config
\* requires auth, then the handler bound to the name; the handler never
\* runs before the parse stage.
C14_ChainOrder ==
  /\ \A entry \in Endpoints : Cardinality({route \in Routes : route.name = entry}) = 1
  /\ \A r \in Reqs :
       Issued(r) =>
         LET expected == <<"jwtParse">>
                           \o (IF ENDPOINT_CONFIGS[req[r].ep].auth
                               THEN <<"enforceJwt">> ELSE <<>>)
                           \o <<"handler">>
             ran == req[r].stages
         IN /\ Len(ran) <= Len(expected)
            /\ \A i \in 1..Len(ran) : ran[i] = expected[i]
            /\ Handled(r) => ran = expected
            /\ req[r].pc \in {"handler", "exists"} =>
                 ran # <<>> /\ ran[1] = "jwtParse"
            /\ req[r].calls # <<>> => Handled(r)

C14_Witness ==
  \E a, b \in Reqs :
    /\ Answered(a) /\ req[a].stages = <<"jwtParse", "enforceJwt", "handler">>
    /\ ENDPOINT_CONFIGS[req[a].ep].auth
    /\ Answered(b) /\ req[b].stages = <<"jwtParse", "handler">>
    /\ ~ENDPOINT_CONFIGS[req[b].ep].auth

\* C15: a request that has reached a Post or Like handler is eventually
\* answered, provided the datastore calls it awaits return or throw; the
\* answer is a success or an error status, and no request is ever sent two
\* responses, or is finished with none.
InHandler(r) ==
  /\ req[r].pc \in {"handler", "exists"}
  /\ req[r].ep # "healthz"

C15_ExactlyOneResponse ==
  /\ [](\A r \in Reqs :
          /\ req[r].sent <= 1
          /\ Answered(r) <=> req[r].sent = 1
          /\ Handled(r) /\ ~InHandler(r) => req[r].sent = 1
          /\ Answered(r) =>
               req[r].status \in {OK, BadRequest, Unauthorized, NotFound, InternalError})
  /\ \A r \in Reqs : InHandler(r) ~> (Answered(r) /\ req[r].sent = 1)

C15_Witness ==
  \E a, b \in Reqs :
    /\ Answered(a) /\ Handled(a) /\ req[a].ep = "createLike"
    /\ Called(a, "exists") /\ req[a].sent = 1 /\ req[a].status = OK
    /\ Answered(b) /\ Handled(b) /\ req[b].ep # "healthz"
    /\ req[b].failed /\ req[b].sent = 1 /\ req[b].status = InternalError

\* C18: a failed query whose error carries a numeric status is retried if
\* and only if the status is at least 500 and fewer than 2 failures were
\* counted before it: a 4xx failure is never retried, and a query that
\* fails with 5xx every time is retried at most twice and then given up.
C18_RetryPolicy ==
  LET log == query.log
      numeric(i) == log[i].status # NoStatus
      retries == Cardinality({i \in 1..Len(log) : log[i].retried})
  IN
  /\ \A i \in 1..Len(log) :
       numeric(i) =>
         /\ log[i].retried <=> (log[i].status >= 500 /\ log[i].failureCount < 2)
         /\ (log[i].status >= 400 /\ log[i].status <= 499) => ~log[i].retried
  /\ (\A i \in 1..Len(log) : numeric(i) /\ log[i].status >= 500) =>
       /\ retries <= 2
       /\ Len(log) <= 3
       /\ Len(log) = 3 => query.pc = "error"

C18_Witness ==
  /\ query.pc = "error"
  /\ Len(query.log) = 3
  /\ \A i \in 1..3 : query.log[i].status \in {InternalError, Unavailable}
  /\ query.log[1].retried /\ query.log[2].retried /\ ~query.log[3].retried

====
